---- MODULE Spec2Model ----
(***************************************************************************)
(* TaskFlow: the request handlers of the tasks, projects, attachments and  *)
(* files routes, over the store (tables tasks, projects, file_attachments) *)
(* and the storage bucket 'task-attachments'.                              *)
(*                                                                         *)
(* Every handler is one action; resp is its response, in flight until the  *)
(* client has received it.  Where requests race, a handler is two actions, *)
(* split at an await between two of its store calls, and running holds the *)
(* local variables of the requests that are between the two.  client is    *)
(* the task list component of one signed-in user: the list it holds, the   *)
(* filters selected, and its requests that have not been answered.         *)
(* A handler's store and storage calls are                                 *)
(* numbered in the order the handler awaits them; the input `fail` is the  *)
(* set of call numbers that return an error object.  Row ids stand for the *)
(* generated UUIDs and are never reused; created_at (DEFAULT NOW()) tells  *)
(* the inserts into a table apart, so that the rows of a table have        *)
(* distinct creation times, in the order of their inserts.                 *)
(***************************************************************************)
EXTENDS Integers, Sequences, FiniteSets, TLC

VARIABLES tasks, projects, file_attachments, storage, taskSeq, projectSeq,
          fileSeq, resp, now, running, client

vars == <<tasks, projects, file_attachments, storage, taskSeq, projectSeq,
          fileSeq, resp, now, running, client>>

\* what a handler that runs from its first await to its return leaves alone
background == <<running, client>>

store == <<tasks, projects, file_attachments, storage>>

(* ------------------------------ bounds --------------------------------- *)
\* tasks and projects created in a run of SpecOrder, and the longest list it
\* reorders
MaxTasks == 2
MaxProjects == 1
MaxReorder == 2
\* tasks, projects and files created, all together, in a run of Spec and of
\* SpecErrors
MaxRows == 3
\* tasks created in a run of SpecRecent
MaxRecent == 6
\* requests that run at the same time, and tasks created, in a run of SpecRace
MaxRace == 2
MaxRaceTasks == 3
\* tasks created, and requests the task list sends, in a run of SpecClient
MaxClientTasks == 2
MaxCalls == 4

Users == {"u1", "u2"}
\* a request carries no Authorization header, a rejected token, or a user's token
Credentials == {"none", "invalid"} \cup Users

TaskIds == 1..MaxTasks
ProjectIds == 1..MaxProjects

\* SQL NULL / JS null of an id column, of a timestamp or number column, of a text column
NoId == 0
NoValue == -1
NoText == "null"

UpstreamMessage == "upstream error"
NoRowsMessage == "JSON object requested, multiple (or no) rows returned"
ForeignKeyMessage == "violates foreign key constraint"
\* title TEXT NOT NULL
NotNullMessage == "violates not-null constraint"

(* ------------------------------ helpers -------------------------------- *)
Field(body, f, default) == IF f \in DOMAIN body THEN body[f] ELSE default

Range(s) == {s[i] : i \in 1..Len(s)}

Max(S) == CHOOSE m \in S : \A x \in S : x <= m

Perms(S) == {s \in [1..Cardinality(S) -> S] : \A i, j \in 1..Cardinality(S) : i # j => s[i] # s[j]}

Response(handler, cred, req, status, body, calls) ==
    [handler |-> handler, cred |-> cred, req |-> req, status |-> status,
     body |-> body, calls |-> calls]

\* no response is in flight
NoResponse == [handler |-> ""]

Outcome(r, t, p, a, s) ==
    [resp |-> r, tasks |-> t, projects |-> p, file_attachments |-> a, storage |-> s]

\* the handler changed nothing in the store
Respond(r) == Outcome(r, tasks, projects, file_attachments, storage)

\* !title, !name: the field is undefined or the empty string
Falsy_undefinedOnly(body, f) == f \notin DOMAIN body

Falsy(body, f) == Field(body, f, "") = ""

(* ------------------------- lib/api-auth.ts ----------------------------- *)
\* the token is never validated
getAuthenticatedUser_unchecked(cred) ==
    IF cred = "none" THEN "No authorization header" ELSE ""

\* the error getAuthenticatedUser throws, or "" when it returns { user, supabase }
getAuthenticatedUser(cred) ==
    IF cred = "none" THEN "No authorization header"
    ELSE IF cred \notin Users THEN "Unauthorized"
    ELSE ""

\* the catch block every handler shares
Catch(handler, cred, req) ==
    Respond(Response(handler, cred, req, 401, getAuthenticatedUser(cred), 0))

(* ------------------------------- text ---------------------------------- *)
\* the characters of the strings the requests carry
Letters(text) ==
    CASE text = "Ab" -> <<"A", "b">>
      [] text = "ab" -> <<"a", "b">>
      [] text = "xy" -> <<"x", "y">>
      [] text = "a" -> <<"a">>
      [] text = "B" -> <<"B">>
      [] text = "_" -> <<"_">>
      [] text = "a,b" -> <<"a", ",", "b">>

Lower(c) == CASE c = "A" -> "a" [] c = "B" -> "b" [] OTHER -> c

\* the parts of s between the occurrences of sep
RECURSIVE Split(_, _)
Split(s, sep) ==
    IF \A i \in 1..Len(s) : s[i] # sep THEN <<s>>
    ELSE LET i == CHOOSE k \in 1..Len(s) : s[k] = sep /\ \A j \in 1..(k - 1) : s[j] # sep
         IN  <<SubSeq(s, 1, i - 1)>> \o Split(SubSeq(s, i + 1, Len(s)), sep)

\* s LIKE p without regard to case: % stands for any characters, _ for any one
RECURSIVE Like(_, _)
Like(p, s) ==
    IF p = <<>> THEN s = <<>>
    ELSE IF Head(p) = "%" THEN Like(Tail(p), s) \/ (s # <<>> /\ Like(p, Tail(s)))
    ELSE /\ s # <<>>
         /\ Head(p) = "_" \/ Lower(Head(p)) = Lower(Head(s))
         /\ Like(Tail(p), Tail(s))

\* column ILIKE pattern; NULL matches nothing
ILike(value, pattern) == value # NoText /\ Like(pattern, Letters(value))

(* ------------------------------- time ----------------------------------- *)
\* instants are hours; n * 60 * 60 * 1000 milliseconds
Hours(n) == n

\* the local midnights of the server's time zone: a day of 24 hours, the day
\* of 23 hours on which the clocks go forward, the day of 25 hours on which
\* they go back, and days of 24 hours after it
DayStarts == {0, 24, 47} \cup {72 + 24 * k : k \in 0..6}

\* the instants at which requests arrive, one on each of the first three days
Instants == <<10, 30, 50>>

\* and one on the ninth day
LaterInstants == Instants \o <<200>>

\* created_at, DEFAULT NOW(): the instant of the insert at the resolution of
\* the database clock, which tells the n-th insert of a table from the others
TicksPerHour == 100
Stamp(t, n) == t * TicksPerHour + n

\* new Date(now.getFullYear(), now.getMonth(), now.getDate())
StartOfDay(t) == Max({d \in DayStarts : d <= t})

(* --------------------------- GET /api/tasks ---------------------------- *)
\* searchParams.get(...) of each parameter; an absent or empty one is falsy
NoFilters ==
    [project_id |-> NoId, status |-> "", priority |-> "", search |-> "",
     date_filter |-> "", tag_filter |-> ""]

\* `title.ilike.%${search}%,description.ilike.%${search}%`
OrFilter(search) ==
    <<"title", ".", "ilike", ".", "%">> \o Letters(search) \o
    <<"%", ",", "description", ".", "ilike", ".", "%">> \o Letters(search) \o <<"%">>

\* the conditions .or() receives: the filter splits at every comma, and each
\* part must read column.operator.value
OrConditions(search) == Split(OrFilter(search), ",")

IsCondition(c) ==
    /\ Len(c) >= 4
    /\ c[1] \in {"title", "description"}
    /\ c[2] = "." /\ c[3] = "ilike" /\ c[4] = "."

OrParses(search) == \A c \in Range(OrConditions(search)) : IsCondition(c)

ParseMessage == "failed to parse logic tree"

\* the filter parses and the row satisfies one of its conditions
OrMatches(row, search) ==
    /\ OrParses(search)
    /\ \E c \in Range(OrConditions(search)) : ILike(row[c[1]], SubSeq(c, 5, Len(c)))

\* tomorrow is counted from the current instant, not from midnight
DueMatches_fromNow(due, dateFilter, t) ==
    LET today == StartOfDay(t)
        tomorrow == t + Hours(24)
        nextWeek == today + Hours(7 * 24)
        nextMonth == today + Hours(30 * 24)
        Within(from, to) == due # NoValue /\ due >= from /\ due < to
    IN  CASE dateFilter = "today" -> Within(today, tomorrow)
          [] dateFilter = "tomorrow" -> Within(tomorrow, tomorrow + Hours(24))
          [] dateFilter = "this_week" -> Within(today, nextWeek)
          [] dateFilter = "next_week" -> Within(nextWeek, nextWeek + Hours(7 * 24))
          [] dateFilter = "this_month" -> Within(today, nextMonth)
          [] dateFilter = "overdue" -> due # NoValue /\ due < today
          [] dateFilter = "no_due_date" -> due = NoValue
          [] OTHER -> TRUE

\* the switch on dateFilter: a keyword it does not list adds no condition
DueMatches(due, dateFilter, t) ==
    LET today == StartOfDay(t)
        tomorrow == today + Hours(24)
        nextWeek == today + Hours(7 * 24)
        nextMonth == today + Hours(30 * 24)
        Within(from, to) == due # NoValue /\ due >= from /\ due < to
    IN  CASE dateFilter = "today" -> Within(today, tomorrow)
          [] dateFilter = "tomorrow" -> Within(tomorrow, tomorrow + Hours(24))
          [] dateFilter = "this_week" -> Within(today, nextWeek)
          [] dateFilter = "next_week" -> Within(nextWeek, nextWeek + Hours(7 * 24))
          [] dateFilter = "this_month" -> Within(today, nextMonth)
          [] dateFilter = "overdue" -> due # NoValue /\ due < today
          [] dateFilter = "no_due_date" -> due = NoValue
          [] OTHER -> TRUE

\* .eq('user_id', user.id) and one condition per parameter that is present
TaskMatches(row, user, q) ==
    /\ row.user_id = user
    /\ q.project_id # NoId => row.project_id = q.project_id
    /\ q.status # "" => row.status = q.status
    /\ q.priority # "" => row.priority = q.priority
    /\ q.search # "" => OrMatches(row, q.search)
    /\ q.date_filter # "" => DueMatches(row.due_date, q.date_filter, now)
    /\ q.tag_filter # "" => q.tag_filter \in row.tags

\* position descending
TaskOrder_descending(a, b) ==
    \/ a.position > b.position
    \/ a.position = b.position /\ a.created_at >= b.created_at

\* no second sort key
TaskOrder_noTieBreak(a, b) == a.position <= b.position

\* .order('position', { ascending: true }).order('created_at', { ascending: false })
TaskOrder(a, b) ==
    \/ a.position < b.position
    \/ a.position = b.position /\ a.created_at >= b.created_at

\* projects ( id, name, color ): the embedded row, read under row level security
EmbedProject(row, user) ==
    IF row.project_id \in DOMAIN projects /\ projects[row.project_id].user_id = user
    THEN [id |-> row.project_id, name |-> projects[row.project_id].name,
          color |-> projects[row.project_id].color]
    ELSE [id |-> NoId, name |-> NoText, color |-> NoText]

TaskJson(t, id, user) ==
    [id |-> id, row |-> t[id], projects |-> EmbedProject(t[id], user)]

\* every sequence the store may return for the query: the ORDER BY leaves
\* the order of rows with equal keys open
ListTasks(user, q) ==
    LET ids == {id \in DOMAIN tasks : TaskMatches(tasks[id], user, q)}
    IN  {s \in Perms(ids) :
            \A i, j \in 1..Len(s) : i < j => TaskOrder(tasks[s[i]], tasks[s[j]])}

GET_tasks(cred, q, fail, order) ==
    LET h == "GET /api/tasks"
        req == [q |-> q, fail |-> fail]
    IN  IF getAuthenticatedUser(cred) # "" THEN Catch(h, cred, req)
        ELSE IF 1 \in fail THEN Respond(Response(h, cred, req, 500, UpstreamMessage, 1))
        ELSE IF q.search # "" /\ ~OrParses(q.search)
             THEN Respond(Response(h, cred, req, 500, ParseMessage, 1))
        ELSE Respond(Response(h, cred, req, 200,
                 [i \in 1..Len(order) |-> TaskJson(tasks, order[i], cred)], 1))

(* --------------------------- POST /api/tasks --------------------------- *)
\* .eq('project_id', project_id || null).order('position', desc).limit(1).single():
\* a comparison with null selects no row, and .single() on no row gives data = null
LastTask(user, project_id) ==
    IF project_id = NoId THEN {}
    ELSE {id \in DOMAIN tasks :
             /\ tasks[id].user_id = user
             /\ tasks[id].project_id = project_id
             /\ \A o \in DOMAIN tasks :
                   (tasks[o].user_id = user /\ tasks[o].project_id = project_id)
                       => tasks[o].position <= tasks[id].position}

\* (lastTask?.position || 0) + 1
NextPosition(last) ==
    IF last = {} THEN 1 ELSE tasks[CHOOSE id \in last : TRUE].position + 1

\* the insert and the answer, with the position the handler computed
InsertTask(cred, body, fail, nextPosition) ==
    LET h == "POST /api/tasks"
        req == [body |-> body, fail |-> fail]
        title == Field(body, "title", "")
        project_id == Field(body, "project_id", NoId)
        id == taskSeq
        row == [user_id |-> cred,
                project_id |-> project_id,
                title |-> title,
                description |-> Field(body, "description", NoText),
                status |-> Field(body, "status", "todo"),
                priority |-> Field(body, "priority", "medium"),
                due_date |-> Field(body, "due_date", NoValue),
                estimated_time |-> Field(body, "estimated_time", NoValue),
                actual_time |-> NoValue,
                tags |-> Field(body, "tags", {}),
                position |-> nextPosition,
                created_at |-> Stamp(now, taskSeq)]
        inserted == (id :> row) @@ tasks
    IN  IF 2 \in fail THEN Respond(Response(h, cred, req, 500, UpstreamMessage, 2))
        ELSE IF project_id # NoId /\ project_id \notin DOMAIN projects
             THEN Respond(Response(h, cred, req, 500, ForeignKeyMessage, 2))
        ELSE Outcome(Response(h, cred, req, 201, TaskJson(inserted, id, cred), 2),
                     inserted, projects, file_attachments, storage)

\* the query for the last task of the scope, whose error is not read
ReadNextPosition(cred, body, fail) ==
    NextPosition(IF 1 \in fail THEN {} ELSE LastTask(cred, Field(body, "project_id", NoId)))

POST_tasks(cred, body, fail) ==
    LET h == "POST /api/tasks"
        req == [body |-> body, fail |-> fail]
    IN  IF getAuthenticatedUser(cred) # "" THEN Catch(h, cred, req)
        ELSE IF Falsy(body, "title")
             THEN Respond(Response(h, cred, req, 400, "Task title is required", 0))
        ELSE InsertTask(cred, body, fail, ReadNextPosition(cred, body, fail))

(* ------------------------ PUT /api/tasks/reorder ----------------------- *)
\* the updates are not scoped to the caller
RECURSIVE Reordered_anyOwner(_, _, _)
Reordered_anyOwner(user, taskIds, n) ==
    IF n = 0 THEN tasks
    ELSE LET t == Reordered_anyOwner(user, taskIds, n - 1)
             id == taskIds[n]
         IN  IF id \in DOMAIN t THEN [t EXCEPT ![id].position = n - 1] ELSE t

\* the updates are applied together or not at all
Reordered_allOrNothing(user, taskIds, n) ==
    IF n < Len(taskIds) THEN tasks ELSE Reordered_anyOwner(user, taskIds, n)

\* the store after the first n updates of the loop
RECURSIVE Reordered(_, _, _)
Reordered(user, taskIds, n) ==
    IF n = 0 THEN tasks
    ELSE LET t == Reordered(user, taskIds, n - 1)
             id == taskIds[n]
         IN  IF id \in DOMAIN t /\ t[id].user_id = user
             THEN [t EXCEPT ![id].position = n - 1]
             ELSE t

PUT_tasks_reorder(cred, body, fail) ==
    LET h == "PUT /api/tasks/reorder"
        req == [body |-> body, fail |-> fail]
        taskIds == Field(body, "taskIds", <<>>)
        failed == {k \in 1..Len(taskIds) : k \in fail}
        k == IF failed = {} THEN Len(taskIds) + 1
             ELSE CHOOSE m \in failed : \A x \in failed : m <= x
    IN  IF getAuthenticatedUser(cred) # "" THEN Catch(h, cred, req)
        ELSE IF "taskIds" \notin DOMAIN body
             THEN Respond(Response(h, cred, req, 400, "Task IDs array is required", 0))
        ELSE IF failed # {}
             THEN Outcome(Response(h, cred, req, 500, UpstreamMessage, k),
                          Reordered(cred, taskIds, k - 1), projects, file_attachments, storage)
        ELSE Outcome(Response(h, cred, req, 200, "Tasks reordered successfully", Len(taskIds)),
                     Reordered(cred, taskIds, Len(taskIds)), projects, file_attachments, storage)

(* ------------------- GET / PUT / DELETE /api/tasks/{id} ---------------- *)
\* .eq('id', taskId).eq('user_id', user.id)
TaskRows(user, taskId) ==
    {id \in DOMAIN tasks : id = taskId /\ tasks[id].user_id = user}

GET_task(cred, taskId, fail) ==
    LET h == "GET /api/tasks/{id}"
        req == [id |-> taskId, fail |-> fail]
    IN  IF getAuthenticatedUser(cred) # "" THEN Catch(h, cred, req)
        ELSE IF 1 \in fail THEN Respond(Response(h, cred, req, 500, UpstreamMessage, 1))
        \* .single() on no row returns an error, so the !task branch is never taken
        ELSE IF TaskRows(cred, taskId) = {}
             THEN Respond(Response(h, cred, req, 500, NoRowsMessage, 1))
        ELSE Respond(Response(h, cred, req, 200, TaskJson(tasks, taskId, cred), 1))

\* update({ title, ..., position }): a field the body leaves undefined is not sent
UpdatedRow(row, body) ==
    [f \in DOMAIN row |-> IF f \in DOMAIN body THEN body[f] ELSE row[f]]

PUT_task(cred, taskId, body, fail) ==
    LET h == "PUT /api/tasks/{id}"
        req == [id |-> taskId, body |-> body, fail |-> fail]
        project_id == Field(body, "project_id", NoId)
        updated == [tasks EXCEPT ![taskId] = UpdatedRow(tasks[taskId], body)]
    IN  IF getAuthenticatedUser(cred) # "" THEN Catch(h, cred, req)
        ELSE IF 1 \in fail THEN Respond(Response(h, cred, req, 500, UpstreamMessage, 1))
        ELSE IF TaskRows(cred, taskId) = {}
             THEN Respond(Response(h, cred, req, 500, NoRowsMessage, 1))
        ELSE IF project_id # NoId /\ project_id \notin DOMAIN projects
             THEN Respond(Response(h, cred, req, 500, ForeignKeyMessage, 1))
        ELSE IF Field(body, "title", "") = NoText
             THEN Respond(Response(h, cred, req, 500, NotNullMessage, 1))
        ELSE Outcome(Response(h, cred, req, 200, TaskJson(updated, taskId, cred), 1),
                     updated, projects, file_attachments, storage)

\* file_attachments.task_id REFERENCES tasks(id) ON DELETE CASCADE
CascadeTasks(deleted) ==
    [a \in {x \in DOMAIN file_attachments : file_attachments[x].task_id \notin deleted}
        |-> file_attachments[a]]

DELETE_task(cred, taskId, fail) ==
    LET h == "DELETE /api/tasks/{id}"
        req == [id |-> taskId, fail |-> fail]
        deleted == TaskRows(cred, taskId)
    IN  IF getAuthenticatedUser(cred) # "" THEN Catch(h, cred, req)
        ELSE IF 1 \in fail THEN Respond(Response(h, cred, req, 500, UpstreamMessage, 1))
        ELSE Outcome(Response(h, cred, req, 200, "Task deleted successfully", 1),
                     [id \in DOMAIN tasks \ deleted |-> tasks[id]], projects,
                     CascadeTasks(deleted), storage)

(* ------------------------ GET / POST /api/projects --------------------- *)
DefaultColor == "#f2766b"

ProjectJson(p, id) == [id |-> id, row |-> p[id]]

ListProjects(user, includeArchived) ==
    LET ids == {id \in DOMAIN projects :
                   /\ projects[id].user_id = user
                   /\ ~includeArchived => ~projects[id].is_archived}
    IN  {s \in Perms(ids) :
            \A i, j \in 1..Len(s) :
                i < j => projects[s[i]].created_at >= projects[s[j]].created_at}

GET_projects(cred, includeArchived, fail, order) ==
    LET h == "GET /api/projects"
        req == [include_archived |-> includeArchived, fail |-> fail]
    IN  IF getAuthenticatedUser(cred) # "" THEN Catch(h, cred, req)
        ELSE IF 1 \in fail THEN Respond(Response(h, cred, req, 500, UpstreamMessage, 1))
        ELSE Respond(Response(h, cred, req, 200,
                 [i \in 1..Len(order) |-> ProjectJson(projects, order[i])], 1))

POST_projects(cred, body, fail) ==
    LET h == "POST /api/projects"
        req == [body |-> body, fail |-> fail]
        name == Field(body, "name", "")
        id == projectSeq
        row == [user_id |-> cred,
                name |-> name,
                description |-> Field(body, "description", NoText),
                color |-> IF Field(body, "color", "") = "" THEN DefaultColor ELSE body.color,
                is_archived |-> FALSE,
                created_at |-> projectSeq]
        inserted == (id :> row) @@ projects
    IN  IF getAuthenticatedUser(cred) # "" THEN Catch(h, cred, req)
        ELSE IF Falsy(body, "name")
             THEN Respond(Response(h, cred, req, 400, "Project name is required", 0))
        ELSE IF 1 \in fail THEN Respond(Response(h, cred, req, 500, UpstreamMessage, 1))
        ELSE Outcome(Response(h, cred, req, 201, ProjectJson(inserted, id), 1),
                     tasks, inserted, file_attachments, storage)

(* ----------------- GET / PUT / DELETE /api/projects/{id} --------------- *)
\* .eq('id', params.id).eq('user_id', user.id)
ProjectRows(user, projectId) ==
    {id \in DOMAIN projects : id = projectId /\ projects[id].user_id = user}

GET_project(cred, projectId, fail) ==
    LET h == "GET /api/projects/{id}"
        req == [id |-> projectId, fail |-> fail]
    IN  IF getAuthenticatedUser(cred) # "" THEN Catch(h, cred, req)
        ELSE IF 1 \in fail THEN Respond(Response(h, cred, req, 500, UpstreamMessage, 1))
        ELSE IF ProjectRows(cred, projectId) = {}
             THEN Respond(Response(h, cred, req, 500, NoRowsMessage, 1))
        ELSE Respond(Response(h, cred, req, 200, ProjectJson(projects, projectId), 1))

PUT_project(cred, projectId, body, fail) ==
    LET h == "PUT /api/projects/{id}"
        req == [id |-> projectId, body |-> body, fail |-> fail]
        updated == [projects EXCEPT ![projectId] = UpdatedRow(projects[projectId], body)]
    IN  IF getAuthenticatedUser(cred) # "" THEN Catch(h, cred, req)
        ELSE IF 1 \in fail THEN Respond(Response(h, cred, req, 500, UpstreamMessage, 1))
        ELSE IF ProjectRows(cred, projectId) = {}
             THEN Respond(Response(h, cred, req, 500, NoRowsMessage, 1))
        ELSE Outcome(Response(h, cred, req, 200, ProjectJson(updated, projectId), 1),
                     tasks, updated, file_attachments, storage)

\* the foreign key is declared ON DELETE CASCADE
SetNullProjects_cascade(deleted) ==
    [id \in {t \in DOMAIN tasks : tasks[t].project_id \notin deleted} |-> tasks[id]]

\* tasks.project_id REFERENCES projects(id) ON DELETE SET NULL
SetNullProjects(deleted) ==
    [id \in DOMAIN tasks |->
        IF tasks[id].project_id \in deleted
        THEN [tasks[id] EXCEPT !.project_id = NoId] ELSE tasks[id]]

DELETE_project(cred, projectId, fail) ==
    LET h == "DELETE /api/projects/{id}"
        req == [id |-> projectId, fail |-> fail]
        deleted == ProjectRows(cred, projectId)
    IN  IF getAuthenticatedUser(cred) # "" THEN Catch(h, cred, req)
        ELSE IF 1 \in fail THEN Respond(Response(h, cred, req, 500, UpstreamMessage, 1))
        ELSE Outcome(Response(h, cred, req, 200, "Project deleted successfully", 1),
                     SetNullProjects(deleted),
                     [id \in DOMAIN projects \ deleted |-> projects[id]],
                     file_attachments, storage)

(* -------- POST / GET /api/tasks/{id}/attachments, DELETE .../{aid} ----- *)
MAX_FILE_SIZE == 10 * 1024 * 1024

NoFile == [name |-> "", size |-> 0, type |-> ""]

\* `${user.id}/${taskId}/${uniqueFileName}`
FilePath(user, taskId, filename) == <<user, taskId, filename>>

AttachmentJson(a, id) == [id |-> id, row |-> a[id]]

\* a file of exactly the limit is rejected too
ExceedsLimit_inclusive(file) == file.size >= MAX_FILE_SIZE

\* file.size > MAX_FILE_SIZE
ExceedsLimit(file) == file.size > MAX_FILE_SIZE

POST_attachments(cred, taskId, file, fail) ==
    LET h == "POST /api/tasks/{id}/attachments"
        req == [id |-> taskId, file |-> file, fail |-> fail]
        uniqueFileName == fileSeq
        filePath == FilePath(cred, taskId, uniqueFileName)
        row == [task_id |-> taskId,
                user_id |-> cred,
                filename |-> uniqueFileName,
                original_filename |-> file.name,
                file_size |-> file.size,
                mime_type |-> file.type,
                file_path |-> filePath,
                created_at |-> fileSeq]
        inserted == (fileSeq :> row) @@ file_attachments
        uploaded == storage \cup {filePath}
        \* the insert fails: on its own, or because task_id references no task
        dbError == IF 2 \in fail THEN UpstreamMessage
                   ELSE IF taskId \notin DOMAIN tasks THEN ForeignKeyMessage
                   ELSE ""
    IN  IF getAuthenticatedUser(cred) # "" THEN Catch(h, cred, req)
        ELSE IF file = NoFile THEN Respond(Response(h, cred, req, 400, "No file uploaded", 0))
        ELSE IF ExceedsLimit(file)
             THEN Respond(Response(h, cred, req, 400, "File size exceeds 10MB limit", 0))
        ELSE IF 1 \in fail THEN Respond(Response(h, cred, req, 500, UpstreamMessage, 1))
        ELSE IF dbError # ""
             \* storage.remove([filePath]); its result is not looked at
             THEN Outcome(Response(h, cred, req, 500, dbError, 3), tasks, projects,
                          file_attachments, IF 3 \in fail THEN uploaded ELSE storage)
        ELSE Outcome(Response(h, cred, req, 201, AttachmentJson(inserted, fileSeq), 2),
                     tasks, projects, inserted, uploaded)

ListAttachments(user, taskId) ==
    LET ids == {id \in DOMAIN file_attachments :
                   /\ file_attachments[id].task_id = taskId
                   /\ file_attachments[id].user_id = user}
    IN  {s \in Perms(ids) :
            \A i, j \in 1..Len(s) :
                i < j => file_attachments[s[i]].created_at >= file_attachments[s[j]].created_at}

GET_attachments(cred, taskId, fail, order) ==
    LET h == "GET /api/tasks/{id}/attachments"
        req == [id |-> taskId, fail |-> fail]
    IN  IF getAuthenticatedUser(cred) # "" THEN Catch(h, cred, req)
        ELSE IF 1 \in fail THEN Respond(Response(h, cred, req, 500, UpstreamMessage, 1))
        ELSE Respond(Response(h, cred, req, 200,
                 [i \in 1..Len(order) |-> AttachmentJson(file_attachments, order[i])], 1))

\* .eq('id', attachmentId).eq('task_id', taskId).eq('user_id', user.id)
AttachmentRows(user, taskId, attachmentId) ==
    {id \in DOMAIN file_attachments :
        /\ id = attachmentId
        /\ file_attachments[id].task_id = taskId
        /\ file_attachments[id].user_id = user}

\* the record is deleted before the bytes are removed
DELETE_attachment_recordFirst(cred, taskId, attachmentId, fail) ==
    LET h == "DELETE /api/tasks/{id}/attachments/{attachmentId}"
        req == [id |-> taskId, attachmentId |-> attachmentId, fail |-> fail]
        found == AttachmentRows(cred, taskId, attachmentId)
        deleted == [id \in DOMAIN file_attachments \ found |-> file_attachments[id]]
    IN  IF getAuthenticatedUser(cred) # "" THEN Catch(h, cred, req)
        ELSE IF 1 \in fail \/ found = {}
             THEN Respond(Response(h, cred, req, 404, "Attachment not found or unauthorized", 1))
        ELSE IF 2 \in fail THEN Respond(Response(h, cred, req, 500, UpstreamMessage, 2))
        ELSE IF 3 \in fail
             THEN Outcome(Response(h, cred, req, 500, UpstreamMessage, 3),
                          tasks, projects, deleted, storage)
        ELSE Outcome(Response(h, cred, req, 200, "Attachment deleted successfully", 3),
                     tasks, projects, deleted,
                     storage \ {file_attachments[attachmentId].file_path})

DELETE_attachment(cred, taskId, attachmentId, fail) ==
    LET h == "DELETE /api/tasks/{id}/attachments/{attachmentId}"
        req == [id |-> taskId, attachmentId |-> attachmentId, fail |-> fail]
        found == AttachmentRows(cred, taskId, attachmentId)
        removed == storage \ {file_attachments[attachmentId].file_path}
    IN  IF getAuthenticatedUser(cred) # "" THEN Catch(h, cred, req)
        ELSE IF 1 \in fail \/ found = {}
             THEN Respond(Response(h, cred, req, 404, "Attachment not found or unauthorized", 1))
        ELSE IF 2 \in fail THEN Respond(Response(h, cred, req, 500, UpstreamMessage, 2))
        ELSE IF 3 \in fail
             THEN Outcome(Response(h, cred, req, 500, UpstreamMessage, 3),
                          tasks, projects, file_attachments, removed)
        ELSE Outcome(Response(h, cred, req, 200, "Attachment deleted successfully", 3),
                     tasks, projects,
                     [id \in DOMAIN file_attachments \ found |-> file_attachments[id]],
                     removed)

(* ----------------------- GET /api/files/{filename} --------------------- *)
\* .eq('filename', filename).eq('user_id', user.id)
FileRows(user, filename) ==
    {id \in DOMAIN file_attachments :
        /\ file_attachments[id].filename = filename
        /\ file_attachments[id].user_id = user}

ObjectNotFoundMessage == "Object not found"

GET_file(cred, filename, fail) ==
    LET h == "GET /api/files/{filename}"
        req == [filename |-> filename, fail |-> fail]
        found == FileRows(cred, filename)
        attachment == file_attachments[CHOOSE id \in found : TRUE]
    IN  IF getAuthenticatedUser(cred) # "" THEN Catch(h, cred, req)
        ELSE IF 1 \in fail \/ found = {}
             THEN Respond(Response(h, cred, req, 404, "File not found or unauthorized", 1))
        ELSE IF 2 \in fail THEN Respond(Response(h, cred, req, 500, UpstreamMessage, 2))
        ELSE IF attachment.file_path \notin storage
             THEN Respond(Response(h, cred, req, 500, ObjectNotFoundMessage, 2))
        ELSE Respond(Response(h, cred, req, 200,
                 [data |-> attachment.file_path,
                  contentType |-> attachment.mime_type,
                  filename |-> attachment.original_filename], 2))

(* ----------------------- GET /api/dashboard/stats ---------------------- *)
\* new Date(today.getFullYear(), today.getMonth(), today.getDate() + 1)
StartOfNextDay(t) == CHOOSE d \in DayStarts : d > t /\ \A e \in DayStarts : e > t => d <= e

\* select('*', { count: 'exact', head: true }) over the caller's tasks
CountTasks(user, matching) ==
    Cardinality({id \in matching : tasks[id].user_id = user})

\* the quotient is cut off instead of rounded
CompletionRate_truncated(completedTasks, totalTasks) ==
    IF totalTasks = 0 THEN 0 ELSE (completedTasks * 100) \div totalTasks

\* totalTasks ? Math.round((completedTasks || 0) / totalTasks * 100) : 0
\* Math.round takes a half upwards
CompletionRate(completedTasks, totalTasks) ==
    IF totalTasks = 0 THEN 0 ELSE (2 * completedTasks * 100 + totalTasks) \div (2 * totalTasks)

\* sevenDaysAgo.setDate(sevenDaysAgo.getDate() - 7): the same time of day on
\* the seventh local day before
SevenDaysAgo(t) ==
    LET today == StartOfDay(t)
        Between(d) == {e \in DayStarts : d < e /\ e <= today}
        days == {d \in DayStarts : Cardinality(Between(d)) = 7}
    IN  IF days = {} THEN t - Hours(7 * 24)
        ELSE (CHOOSE d \in days : TRUE) + (t - today)

\* .gte('created_at', sevenDaysAgo)
CreatedSince(row, t) == row.created_at >= Stamp(t, 0)

\* .order('created_at', { ascending: true })
RECURSIVE OldestFirst(_)
OldestFirst(ids) ==
    IF ids = {} THEN <<>>
    ELSE LET first == CHOOSE id \in ids :
                          \A other \in ids : tasks[id].created_at <= tasks[other].created_at
         IN  <<first>> \o OldestFirst(ids \ {first})

\* .order('created_at', { ascending: false })
RECURSIVE LatestFirst(_)
LatestFirst(ids) ==
    IF ids = {} THEN <<>>
    ELSE LET first == CHOOSE id \in ids :
                          \A other \in ids : tasks[id].created_at >= tasks[other].created_at
         IN  <<first>> \o LatestFirst(ids \ {first})

\* the oldest rows come first
RecentTasks_oldestFirst(user, t) ==
    LET ids == {id \in DOMAIN tasks : tasks[id].user_id = user /\ CreatedSince(tasks[id], t)}
        order == OldestFirst(ids)
        n == IF Len(order) < 5 THEN Len(order) ELSE 5
    IN  [i \in 1..n |-> [id |-> order[i]] @@ tasks[order[i]]]

\* the rows since t, .order('created_at', { ascending: false }).limit(5), as
\* select('*') gives them
RecentTasks(user, t) ==
    LET ids == {id \in DOMAIN tasks : tasks[id].user_id = user /\ CreatedSince(tasks[id], t)}
        order == LatestFirst(ids)
        n == IF Len(order) < 5 THEN Len(order) ELSE 5
    IN  [i \in 1..n |-> [id |-> order[i]] @@ tasks[order[i]]]

\* the analytics page, over the tasks it fetched:
\* t.due_date && new Date(t.due_date) < now && t.status !== 'completed'
AnalyticsOverdue(row, t) ==
    row.due_date # NoValue /\ row.due_date < t /\ row.status # "completed"

\* no query's error is read: a failed count is null and counts as 0, a failed
\* list is null and shows as []
CountRead(fail, k, n) == IF k \in fail THEN 0 ELSE n

\* the first count query
ReadTotalTasks(cred, fail) == CountRead(fail, 1, CountTasks(cred, DOMAIN tasks))

\* the six queries after the first and the answer, with the total the handler
\* read
DashboardStats(cred, fail, totalTasks) ==
    LET h == "GET /api/dashboard/stats"
        req == [fail |-> fail]
        Count(k, n) == CountRead(fail, k, n)
        completedTasks ==
            Count(2, CountTasks(cred, {id \in DOMAIN tasks : tasks[id].status = "completed"}))
        inProgressTasks ==
            Count(3, CountTasks(cred, {id \in DOMAIN tasks : tasks[id].status = "in-progress"}))
        overdueTasks ==
            Count(4, CountTasks(cred, {id \in DOMAIN tasks :
                /\ tasks[id].status = "todo"
                /\ tasks[id].due_date # NoValue /\ tasks[id].due_date < now}))
        tasksDueToday ==
            Count(5, CountTasks(cred, {id \in DOMAIN tasks :
                /\ tasks[id].status # "completed"
                /\ tasks[id].due_date # NoValue
                /\ tasks[id].due_date >= StartOfDay(now)
                /\ tasks[id].due_date < StartOfNextDay(now)}))
        totalProjects ==
            Count(6, Cardinality({id \in DOMAIN projects :
                projects[id].user_id = cred /\ ~projects[id].is_archived}))
        stats == [totalTasks |-> totalTasks,
                  completedTasks |-> completedTasks,
                  inProgressTasks |-> inProgressTasks,
                  overdueTasks |-> overdueTasks,
                  tasksDueToday |-> tasksDueToday,
                  totalProjects |-> totalProjects,
                  completionRate |-> CompletionRate(completedTasks, totalTasks),
                  recentTasks |-> IF 7 \in fail THEN <<>>
                                  ELSE RecentTasks(cred, SevenDaysAgo(now))]
    IN  Respond(Response(h, cred, req, 200, stats, 7))

GET_dashboard_stats(cred, fail) ==
    LET h == "GET /api/dashboard/stats"
        req == [fail |-> fail]
    IN  IF getAuthenticatedUser(cred) # "" THEN Catch(h, cred, req)
        ELSE DashboardStats(cred, fail, ReadTotalTasks(cred, fail))

(* ------------------------------ requests ------------------------------- *)
\* no call fails
NoFail == {{}}

\* the first n calls succeed and call n + 1 returns an error, for a handler
\* that returns at its first error
FirstFails(n) == NoFail \cup {{k} : k \in 1..n}

TaskBodies(pids) ==
    {[title |-> "Write report"]} \cup {[title |-> "Review", project_id |-> p] : p \in pids}

\* no title, or a title that !title rejects
UntitledTaskBodies == {[description |-> "no title"], [title |-> ""]}

TaskUpdates == {[status |-> "completed"]}

\* another title, the empty string, and JSON null
TitleUpdates == {[title |-> "Review"], [title |-> ""], [title |-> NoText]}

TaskMoves(pids) == {[project_id |-> p] : p \in pids}

ReorderBodies(ids, n) == {[taskIds |-> s] : s \in UNION {[1..m -> ids] : m \in 0..n}}

\* a body without the taskIds array
UnlistedReorderBodies == {[tasks |-> <<>>]}

TaskQueries(pids) ==
    {NoFilters} \cup {[NoFilters EXCEPT !.project_id = p] : p \in pids}

ProjectBodies == {[name |-> "P"]}

UnnamedProjectBodies == {[color |-> "#000000"], [name |-> ""]}

ProjectUpdates == {[is_archived |-> TRUE]}

Files == {[name |-> "a.txt", size |-> MAX_FILE_SIZE, type |-> "text/plain"]}

RejectedFiles ==
    {NoFile, [name |-> "b.bin", size |-> MAX_FILE_SIZE + 1, type |-> "application/octet-stream"]}

\* tasks that differ in every field the filters and the dashboard read; the
\* due dates are hours of the calendar of DayStarts
DueBodies(pids) ==
    {[title |-> "Ab", status |-> "in-progress", priority |-> "high", due_date |-> 4,
      tags |-> {"home"}],
     [title |-> "xy", description |-> "ab", status |-> "completed", due_date |-> 26],
     [title |-> "xy", due_date |-> 33],
     [title |-> "xy", due_date |-> 56],
     [title |-> "Ab", description |-> "xy"]}
    \cup {[title |-> "Ab", priority |-> "high", due_date |-> 47, tags |-> {"home"},
           project_id |-> p] : p \in pids}

\* another user's task, which every filter value but the project matches at
\* some instant
ForeignBodies ==
    {[title |-> "Ab", description |-> "ab", priority |-> "high", due_date |-> 26,
      tags |-> {"home"}]}

DateFilters ==
    {"today", "tomorrow", "this_week", "next_week", "this_month", "overdue", "no_due_date"}

\* the filters of a query
Present(q) == {f \in DOMAIN q : q[f] # NoFilters[f]}

\* queries with one parameter, and queries that combine two or all six
FilterQueries(pids) ==
    LET combined ==
            {q \in [project_id : {NoId} \cup pids, status : {"", "todo"},
                    priority : {"", "high"}, search : {"", "a"},
                    date_filter : {"", "this_week"}, tag_filter : {"", "home"}] :
                Cardinality(Present(q)) \in {0, 1, 2, 6}}
    IN  combined
        \cup {[NoFilters EXCEPT !.status = "completed"]}
        \cup {[NoFilters EXCEPT !.search = x] : x \in {"_", "a,b"}}
        \cup {[NoFilters EXCEPT !.date_filter = d] : d \in DateFilters}

\* the queries of the dashboard that may fail
DashboardFails == NoFail \cup {{1}, {2}, {4}, {7}}

(* ------------------------------ actions -------------------------------- *)
\* the requests between two awaits: no request runs in an idle slot
Slots == 1..MaxRace
Idle == [handler |-> ""]

Init ==
    /\ tasks = <<>>
    /\ projects = <<>>
    /\ file_attachments = <<>>
    /\ storage = {}
    /\ taskSeq = 1
    /\ projectSeq = 1
    /\ fileSeq = 1
    /\ resp = NoResponse
    /\ now = Instants[1]
    /\ running = [slot \in Slots |-> Idle]
    /\ client = [tasks |-> <<>>, filters |-> NoFilters, calls |-> {}, issued |-> 0]

\* the rows and files created so far, and the ids a request may name: those
\* drawn so far and the next one, which names no record
Created == (taskSeq - 1) + (projectSeq - 1) + (fileSeq - 1)
Known(seq) == 1..seq

\* the outcome holds a new task or project row
Inserts(o) == taskSeq \in DOMAIN o.tasks \/ projectSeq \in DOMAIN o.projects

\* the handler uploaded the file under the next file name
Uploads(o) == o.resp.handler = "POST /api/tasks/{id}/attachments" /\ o.resp.calls >= 2

\* the handler's outcome becomes the state; an insert draws the next id and
\* the upload draws the next file name
Deliver(o) ==
    /\ resp.handler = ""
    /\ resp' = o.resp
    /\ tasks' = o.tasks
    /\ projects' = o.projects
    /\ file_attachments' = o.file_attachments
    /\ storage' = o.storage
    /\ taskSeq' = IF taskSeq \in DOMAIN o.tasks THEN taskSeq + 1 ELSE taskSeq
    /\ projectSeq' = IF projectSeq \in DOMAIN o.projects THEN projectSeq + 1 ELSE projectSeq
    /\ fileSeq' = IF Uploads(o) THEN fileSeq + 1 ELSE fileSeq
    /\ UNCHANGED now

\* a handler that no other request interleaves with
Handle(o) == Deliver(o) /\ UNCHANGED background

\* the client's fetch resolves: the response leaves the wire
Receive ==
    /\ resp.handler # ""
    /\ resp' = NoResponse
    /\ UNCHANGED <<tasks, projects, file_attachments, storage, taskSeq, projectSeq,
                   fileSeq, now>>
    /\ UNCHANGED background

\* Each action is one request: creds, bodies, ids and fails are the sets the
\* request's credential, body, path parameter and failing calls are drawn from;
\* room tells whether the run may create another row.
GetTasks(creds, queries, fails) ==
    \E cred \in creds, q \in queries, fail \in fails :
        \E order \in (IF cred \in Users THEN ListTasks(cred, q) ELSE {<<>>}) :
            Handle(GET_tasks(cred, q, fail, order))

PostTask(room, creds, bodies, fails) ==
    \E cred \in creds, body \in bodies, fail \in fails :
        /\ Inserts(POST_tasks(cred, body, fail)) => room
        /\ Handle(POST_tasks(cred, body, fail))

ReorderTasks(creds, bodies) ==
    \E cred \in creds, body \in bodies :
        \E fail \in FirstFails(Len(Field(body, "taskIds", <<>>))) :
            Handle(PUT_tasks_reorder(cred, body, fail))

GetTask(creds, ids, fails) ==
    \E cred \in creds, id \in ids, fail \in fails :
        Handle(GET_task(cred, id, fail))

PutTask(creds, ids, bodies, fails) ==
    \E cred \in creds, id \in ids, body \in bodies, fail \in fails :
        Handle(PUT_task(cred, id, body, fail))

DeleteTask(creds, ids, fails) ==
    \E cred \in creds, id \in ids, fail \in fails :
        Handle(DELETE_task(cred, id, fail))

GetProjects(creds, fails) ==
    \E cred \in creds, includeArchived \in BOOLEAN, fail \in fails :
        \E order \in (IF cred \in Users THEN ListProjects(cred, includeArchived) ELSE {<<>>}) :
            Handle(GET_projects(cred, includeArchived, fail, order))

PostProject(room, creds, bodies, fails) ==
    \E cred \in creds, body \in bodies, fail \in fails :
        /\ Inserts(POST_projects(cred, body, fail)) => room
        /\ Handle(POST_projects(cred, body, fail))

GetProject(creds, ids, fails) ==
    \E cred \in creds, id \in ids, fail \in fails :
        Handle(GET_project(cred, id, fail))

PutProject(creds, ids, bodies, fails) ==
    \E cred \in creds, id \in ids, body \in bodies, fail \in fails :
        Handle(PUT_project(cred, id, body, fail))

DeleteProject(creds, ids, fails) ==
    \E cred \in creds, id \in ids, fail \in fails :
        Handle(DELETE_project(cred, id, fail))

PostAttachment(room, creds, ids, files, fails) ==
    \E cred \in creds, id \in ids, file \in files, fail \in fails :
        /\ Uploads(POST_attachments(cred, id, file, fail)) => room
        /\ Handle(POST_attachments(cred, id, file, fail))

GetAttachments(creds, ids, fails) ==
    \E cred \in creds, id \in ids, fail \in fails :
        \E order \in (IF cred \in Users THEN ListAttachments(cred, id) ELSE {<<>>}) :
            Handle(GET_attachments(cred, id, fail, order))

DeleteAttachment(creds, ids, aids, fails) ==
    \E cred \in creds, id \in ids, aid \in aids, fail \in fails :
        Handle(DELETE_attachment(cred, id, aid, fail))

GetFile(creds, filenames, fails) ==
    \E cred \in creds, filename \in filenames, fail \in fails :
        Handle(GET_file(cred, filename, fail))

GetDashboard(creds, fails) ==
    \E cred \in creds, fail \in fails :
        Handle(GET_dashboard_stats(cred, fail))

\* time passes between two requests
Tick(instants) ==
    /\ resp.handler = ""
    /\ \E i \in 1..(Len(instants) - 1) : now = instants[i] /\ now' = instants[i + 1]
    /\ UNCHANGED <<tasks, projects, file_attachments, storage, taskSeq, projectSeq,
                   fileSeq, resp>>
    /\ UNCHANGED background

(* The handlers that read or write one record, those that create the       *)
(* records and those that list them, called by both users with well-formed *)
(* requests; no store call fails.                                          *)
Next ==
    \/ Receive
    \/ GetTasks(Users, {NoFilters}, NoFail)
    \/ PostTask(Created < MaxRows, Users, TaskBodies(Known(projectSeq)), NoFail)
    \/ GetTask(Users, Known(taskSeq), NoFail)
    \/ PutTask(Users, Known(taskSeq), TaskMoves(Known(projectSeq)), NoFail)
    \/ DeleteTask(Users, Known(taskSeq), NoFail)
    \/ GetProjects(Users, NoFail)
    \/ PostProject(Created < MaxRows, Users, ProjectBodies, NoFail)
    \/ GetProject(Users, Known(projectSeq), NoFail)
    \/ PutProject(Users, Known(projectSeq), ProjectUpdates, NoFail)
    \/ DeleteProject(Users, Known(projectSeq), NoFail)
    \/ PostAttachment(Created < MaxRows, Users, Known(taskSeq), Files, NoFail)
    \/ GetAttachments(Users, Known(taskSeq), NoFail)
    \/ DeleteAttachment(Users, Known(taskSeq), Known(fileSeq), NoFail)
    \/ GetFile(Users, Known(fileSeq), NoFail)

Spec == Init /\ [][Next]_vars

Caller == {"u1"}
Strangers == {"none", "invalid"}

(* The task handlers that read and write positions: both users create      *)
(* projects and tasks and list their tasks, one of them reorders; a reorder *)
(* may fail at any of its updates.                                         *)
NextOrder ==
    \/ Receive
    \/ PostProject(projectSeq <= MaxProjects, Users, ProjectBodies, NoFail)
    \/ PostTask(taskSeq <= MaxTasks, Users, TaskBodies(ProjectIds), NoFail)
    \/ ReorderTasks(Caller, ReorderBodies(TaskIds, MaxReorder))
    \/ GetTasks(Users, TaskQueries(ProjectIds), NoFail)

SpecOrder == Init /\ [][NextOrder]_vars

(* Every handler, called by one user and by callers without a valid        *)
(* credential, with well-formed and malformed requests; any store or       *)
(* storage call may fail.                                                  *)

NextErrors ==
    \/ Receive
    \/ GetTasks(Caller, {NoFilters}, FirstFails(1))
    \/ GetTasks(Strangers, {NoFilters}, NoFail)
    \/ PostTask(Created < MaxRows, Caller, TaskBodies(Known(projectSeq)), SUBSET (1..2))
    \/ PostTask(Created < MaxRows, Caller, UntitledTaskBodies, NoFail)
    \/ PostTask(Created < MaxRows, Strangers, TaskBodies({1}), NoFail)
    \/ ReorderTasks(Caller, ReorderBodies(Known(taskSeq), 1) \cup UnlistedReorderBodies)
    \/ ReorderTasks(Strangers, ReorderBodies({1}, 1))
    \/ GetTask(Caller, Known(taskSeq), FirstFails(1))
    \/ GetTask(Strangers, {1}, NoFail)
    \/ PutTask(Caller, Known(taskSeq), TaskMoves(Known(projectSeq)), FirstFails(1))
    \/ PutTask(Strangers, {1}, TaskMoves({1}), NoFail)
    \/ DeleteTask(Caller, Known(taskSeq), FirstFails(1))
    \/ DeleteTask(Strangers, {1}, NoFail)
    \/ GetProjects(Caller, FirstFails(1))
    \/ GetProjects(Strangers, NoFail)
    \/ PostProject(Created < MaxRows, Caller, ProjectBodies, FirstFails(1))
    \/ PostProject(Created < MaxRows, Caller, UnnamedProjectBodies, NoFail)
    \/ PostProject(Created < MaxRows, Strangers, ProjectBodies, NoFail)
    \/ GetProject(Caller, Known(projectSeq), FirstFails(1))
    \/ GetProject(Strangers, {1}, NoFail)
    \/ PutProject(Caller, Known(projectSeq), ProjectUpdates, FirstFails(1))
    \/ PutProject(Strangers, {1}, ProjectUpdates, NoFail)
    \/ DeleteProject(Caller, Known(projectSeq), FirstFails(1))
    \/ DeleteProject(Strangers, {1}, NoFail)
    \/ PostAttachment(Created < MaxRows, Caller, Known(taskSeq), Files, FirstFails(2) \cup {{2, 3}})
    \/ PostAttachment(Created < MaxRows, Caller, {1}, RejectedFiles, NoFail)
    \/ PostAttachment(Created < MaxRows, Strangers, {1}, Files, NoFail)
    \/ GetAttachments(Caller, Known(taskSeq), FirstFails(1))
    \/ GetAttachments(Strangers, {1}, NoFail)
    \/ DeleteAttachment(Caller, Known(taskSeq), Known(fileSeq), FirstFails(3))
    \/ DeleteAttachment(Strangers, {1}, {1}, NoFail)
    \/ GetFile(Caller, Known(fileSeq), FirstFails(2))
    \/ GetFile(Strangers, {1}, NoFail)

SpecErrors == Init /\ [][NextErrors]_vars

(* The handlers that read the tasks by their fields and by the time: one    *)
(* user creates a project and, on the first day, tasks, lists the tasks     *)
(* under the filters and reads the dashboard as time passes; another user   *)
(* owns a task too.                                                         *)
NextViews ==
    \/ Receive
    \/ Tick(Instants)
    \/ PostProject(Created < MaxRows, Caller, ProjectBodies, NoFail)
    \/ PostTask(Created < MaxRows /\ now = Instants[1], Caller, DueBodies(DOMAIN projects),
                NoFail)
    \/ PostTask(Created < MaxRows /\ now = Instants[1], Users \ Caller, ForeignBodies, NoFail)
    \/ GetTasks(Caller, FilterQueries(DOMAIN projects), NoFail)
    \/ GetDashboard(Caller, DashboardFails)

SpecViews == Init /\ [][NextViews]_vars

(* The handlers that write a task's title: one user creates tasks, with and *)
(* without a title, and updates their titles.                               *)
NextTitles ==
    \/ Receive
    \/ PostTask(taskSeq <= MaxTasks, Caller, TaskBodies({}) \cup UntitledTaskBodies, NoFail)
    \/ PutTask(Caller, Known(taskSeq), TitleUpdates, NoFail)

SpecTitles == Init /\ [][NextTitles]_vars

(* The dashboard over more than a week: two users create tasks and read the *)
(* dashboard as time passes.                                                *)
NextRecent ==
    \/ Receive
    \/ Tick(LaterInstants)
    \/ PostTask(taskSeq <= MaxRecent, Users, {[title |-> "Review"]}, NoFail)
    \/ GetDashboard(Users, NoFail)

SpecRecent == Init /\ [][NextRecent]_vars

(* ------------------------- requests that race -------------------------- *)
\* the lowest slot in which no request runs
FreeSlot == CHOOSE s \in Slots : running[s] = Idle /\ \A o \in Slots : running[o] = Idle => s <= o

Posting == {s \in Slots : running[s].handler = "POST /api/tasks"}

\* POST /api/tasks from its start to its await of the insert: the request
\* passed the checks of the caller and of the title and read nextPosition
BeginPostTask(room, creds, bodies) ==
    \E cred \in creds, body \in bodies :
        /\ room
        /\ \E s \in Slots : running[s] = Idle
        /\ getAuthenticatedUser(cred) = "" /\ ~Falsy(body, "title")
        /\ running' = [running EXCEPT ![FreeSlot] =
               [handler |-> "POST /api/tasks", cred |-> cred, body |-> body,
                nextPosition |-> ReadNextPosition(cred, body, {})]]
        /\ UNCHANGED <<tasks, projects, file_attachments, storage, taskSeq,
                       projectSeq, fileSeq, resp, now, client>>

\* the insert reads the last position of the scope again
EndPostTask_rereads(slots, fails) ==
    \E s \in slots, fail \in fails :
        /\ running[s].handler = "POST /api/tasks"
        /\ Deliver(InsertTask(running[s].cred, running[s].body, fail,
                              ReadNextPosition(running[s].cred, running[s].body, {})))
        /\ running' = [running EXCEPT ![s] = Idle]
        /\ UNCHANGED client

\* POST /api/tasks from its insert to its return
EndPostTask(slots, fails) ==
    \E s \in slots, fail \in fails :
        /\ running[s].handler = "POST /api/tasks"
        /\ Deliver(InsertTask(running[s].cred, running[s].body, fail,
                              running[s].nextPosition))
        /\ running' = [running EXCEPT ![s] = Idle]
        /\ UNCHANGED client

\* GET /api/dashboard/stats from its start to its await of the second count:
\* the request passed the check of the caller and read totalTasks
BeginDashboard(creds) ==
    \E cred \in creds :
        /\ \E s \in Slots : running[s] = Idle
        /\ getAuthenticatedUser(cred) = ""
        /\ running' = [running EXCEPT ![FreeSlot] =
               [handler |-> "GET /api/dashboard/stats", cred |-> cred,
                totalTasks |-> ReadTotalTasks(cred, {})]]
        /\ UNCHANGED <<tasks, projects, file_attachments, storage, taskSeq,
                       projectSeq, fileSeq, resp, now, client>>

\* GET /api/dashboard/stats from its second count to its return
EndDashboard(slots) ==
    \E s \in slots :
        /\ running[s].handler = "GET /api/dashboard/stats"
        /\ Deliver(DashboardStats(running[s].cred, {}, running[s].totalTasks))
        /\ running' = [running EXCEPT ![s] = Idle]
        /\ UNCHANGED client

RaceBodies ==
    {[title |-> "Write report", project_id |-> 1],
     [title |-> "Review", status |-> "completed"]}

(* One user's requests that race: tasks are created in a project and       *)
(* outside of projects, and completed, while other creations and the       *)
(* dashboard are between two of their store calls; no store call fails.    *)
NextRace ==
    \/ Receive
    \/ PostProject(projectSeq <= MaxProjects, Caller, ProjectBodies, NoFail)
    \/ BeginPostTask((taskSeq - 1) + Cardinality(Posting) < MaxRaceTasks, Caller, RaceBodies)
    \/ EndPostTask(Slots, NoFail)
    \/ PutTask(Caller, DOMAIN tasks, TaskUpdates, NoFail)
    \/ BeginDashboard(Caller)
    \/ EndDashboard(Slots)

SpecRace == Init /\ [][NextRace]_vars

(* --------------------------- the task list ----------------------------- *)
\* tasks.filter(...): the held tasks that the selected status and priority
\* match; the search box stays empty
filteredTasks(held, q) ==
    SelectSeq(held, LAMBDA task :
        /\ q.status # "" => task.row.status = q.status
        /\ q.priority # "" => task.row.priority = q.priority)

\* splice(sourceIndex, 1) and splice(destinationIndex, 0, reorderedTask)
Spliced(list, sourceIndex, destinationIndex) ==
    LET without == [k \in 1..(Len(list) - 1) |->
                       IF k < sourceIndex THEN list[k] ELSE list[k + 1]]
    IN  [k \in 1..Len(list) |->
            IF k < destinationIndex THEN without[k]
            ELSE IF k = destinationIndex THEN list[sourceIndex]
            ELSE without[k - 1]]

\* newTasks.map((task, index) => ({ ...task, position: index }))
Renumbered(newTasks) ==
    [k \in 1..Len(newTasks) |-> [newTasks[k] EXCEPT !.row.position = k - 1]]

\* prev.map(task => taskMap.get(task.id) || task)
OptimisticUpdate(prev, updatedTasks) ==
    [k \in 1..Len(prev) |->
        IF \E m \in 1..Len(updatedTasks) : updatedTasks[m].id = prev[k].id
        THEN updatedTasks[CHOOSE m \in 1..Len(updatedTasks) : updatedTasks[m].id = prev[k].id]
        ELSE prev[k]]

\* fetchTasks() of the render with filters q: the request leaves
Fetch(q, refetch) ==
    [kind |-> "fetch", n |-> client.issued + 1, q |-> q, refetch |-> refetch]

\* the component mounts: the effect runs fetchTasks with the first filters
OpenTaskList ==
    /\ client.issued = 0
    /\ client' = [client EXCEPT !.calls = {Fetch(client.filters, FALSE)}, !.issued = 1]
    /\ UNCHANGED <<tasks, projects, file_attachments, storage, taskSeq, projectSeq,
                   fileSeq, resp, now, running>>

\* the user selects other filters: the effect runs fetchTasks with them
SelectFilters(queries) ==
    \E q \in queries :
        /\ client.issued \in 1..(MaxCalls - 1)
        /\ q # client.filters
        /\ client' = [client EXCEPT !.filters = q,
                                    !.calls = @ \cup {Fetch(q, FALSE)},
                                    !.issued = @ + 1]
        /\ UNCHANGED <<tasks, projects, file_attachments, storage, taskSeq,
                       projectSeq, fileSeq, resp, now, running>>

\* GET /api/tasks answers one of the fetches: setTasks(data)
FetchCompletes(creds) ==
    \E cred \in creds, call \in client.calls :
        /\ call.kind = "fetch"
        /\ \E order \in ListTasks(cred, call.q) :
              LET o == GET_tasks(cred, call.q, {}, order)
              IN  client' = [client EXCEPT
                      !.tasks = IF o.resp.status = 200 THEN o.resp.body ELSE @,
                      !.calls = @ \ {call}]
        /\ UNCHANGED <<tasks, projects, file_attachments, storage, taskSeq,
                       projectSeq, fileSeq, resp, now, running>>

\* handleDragEnd up to its await of the reorder request
DragEnd ==
    LET shown == filteredTasks(client.tasks, client.filters)
    IN  \E sourceIndex, destinationIndex \in 1..Len(shown) :
            /\ client.issued \in 1..(MaxCalls - 2)
            /\ sourceIndex # destinationIndex
            /\ LET updatedTasks == Renumbered(Spliced(shown, sourceIndex, destinationIndex))
               IN  client' = [client EXCEPT
                       !.tasks = OptimisticUpdate(@, updatedTasks),
                       !.calls = @ \cup
                           {[kind |-> "reorder", n |-> client.issued + 1,
                             q |-> client.filters,
                             source |-> sourceIndex, destination |-> destinationIndex,
                             taskIds |-> [k \in 1..Len(updatedTasks) |-> updatedTasks[k].id]]},
                       !.issued = @ + 1]
            /\ UNCHANGED <<tasks, projects, file_attachments, storage, taskSeq,
                           projectSeq, fileSeq, resp, now, running>>

\* PUT /api/tasks/reorder answers: handleDragEnd goes on, and on an error
\* runs fetchTasks of the render that the drag happened in
ReorderCompletes(creds) ==
    \E cred \in creds, call \in client.calls :
        /\ call.kind = "reorder"
        /\ \E fail \in FirstFails(Len(call.taskIds)) :
              LET o == PUT_tasks_reorder(cred, [taskIds |-> call.taskIds], fail)
              IN  /\ tasks' = o.tasks
                  /\ client' = [client EXCEPT
                         !.calls = (@ \ {call}) \cup
                             (IF o.resp.status = 200 THEN {} ELSE {Fetch(call.q, TRUE)}),
                         !.issued = IF o.resp.status = 200 THEN @ ELSE @ + 1]
        /\ UNCHANGED <<projects, file_attachments, storage, taskSeq, projectSeq,
                       fileSeq, resp, now, running>>

ClientBodies ==
    {[title |-> "Write report", project_id |-> 1],
     [title |-> "Review", project_id |-> 1, status |-> "completed", tags |-> {"home"}]}

ClientFilters ==
    {NoFilters, [NoFilters EXCEPT !.status = "completed"],
     [NoFilters EXCEPT !.tag_filter = "home"]}

(* One user creates a project and tasks in it, then opens the task list,   *)
(* selects filters and drags tasks; the answers to the list's requests     *)
(* arrive in any order, and a write of a reorder may fail.                 *)
NextClient ==
    \/ Receive
    \/ PostProject(client.issued = 0 /\ projectSeq <= MaxProjects, Caller, ProjectBodies, NoFail)
    \/ PostTask(client.issued = 0 /\ taskSeq <= MaxClientTasks, Caller, ClientBodies, NoFail)
    \/ OpenTaskList
    \/ SelectFilters(ClientFilters)
    \/ FetchCompletes(Caller)
    \/ DragEnd
    \/ ReorderCompletes(Caller)

SpecClient == Init /\ [][NextClient]_vars

(* ------------------------------ properties ----------------------------- *)
ReorderHandler == "PUT /api/tasks/reorder"
TaskByIdHandlers == {"GET /api/tasks/{id}", "PUT /api/tasks/{id}", "DELETE /api/tasks/{id}"}
ProjectByIdHandlers ==
    {"GET /api/projects/{id}", "PUT /api/projects/{id}", "DELETE /api/projects/{id}"}

Distinct(s) == \A i, j \in 1..Len(s) : i # j => s[i] # s[j]

OwnedBy(user, ids) ==
    \A i \in 1..Len(ids) : ids[i] \in DOMAIN tasks /\ tasks[ids[i]].user_id = user

\* the tasks of the same owner and project as task id, other than id
Scope(id) ==
    {o \in DOMAIN tasks \ {id} :
        tasks[o].user_id = tasks[id].user_id /\ tasks[o].project_id = tasks[id].project_id}

\* C1: a task created by POST /api/tasks has position max + 1 over the other
\* tasks of its owner and project (no project being a scope of its own), and
\* position 0 when there is no such task.
C1_PositionIsNextInScope ==
    (resp.handler = "POST /api/tasks" /\ resp.status = 201) =>
        tasks[resp.body.id].position =
            IF Scope(resp.body.id) = {} THEN 0
            ELSE Max({tasks[o].position : o \in Scope(resp.body.id)}) + 1

\* C2: after a successful reorder of distinct task ids owned by the caller,
\* every list GET /api/tasks can return holds those tasks in the submitted order.
C2_ReadOrderMatchesReorder ==
    (/\ resp.handler = ReorderHandler
     /\ resp.status = 200
     /\ Distinct(resp.req.body.taskIds)
     /\ OwnedBy(resp.cred, resp.req.body.taskIds)) =>
        \A order \in ListTasks(resp.cred, NoFilters) :
            SelectSeq(order, LAMBDA id : id \in Range(resp.req.body.taskIds))
                = resp.req.body.taskIds

C2_Witness ==
    /\ resp.handler = ReorderHandler
    /\ resp.status = 200
    /\ Len(resp.req.body.taskIds) = 2
    /\ OwnedBy(resp.cred, resp.req.body.taskIds)
    /\ resp.req.body.taskIds[1] > resp.req.body.taskIds[2]
    /\ Cardinality({id \in DOMAIN tasks : tasks[id].user_id = resp.cred}) = 2

\* C3: a reorder request changes nothing but the positions of the caller's
\* tasks named in the list; when it succeeds, the caller's task at index i of
\* the list (the last index, if the id is listed twice) has position i.
C3_ReorderFrame ==
    [][resp'.handler = ReorderHandler =>
        LET ids == Field(resp'.req.body, "taskIds", <<>>)
        IN  /\ DOMAIN tasks' = DOMAIN tasks
            /\ \A id \in DOMAIN tasks :
                  /\ [tasks'[id] EXCEPT !.position = tasks[id].position] = tasks[id]
                  /\ (tasks[id].user_id # resp'.cred \/ id \notin Range(ids))
                        => tasks'[id] = tasks[id]
            /\ <<projects, file_attachments, storage>>'
                  = <<projects, file_attachments, storage>>
            /\ resp'.status = 200 =>
                  \A i \in 1..Len(ids) :
                      (/\ ids[i] \in DOMAIN tasks
                       /\ tasks[ids[i]].user_id = resp'.cred
                       /\ \A j \in (i + 1)..Len(ids) : ids[j] # ids[i])
                          => tasks'[ids[i]].position = i - 1
    ]_vars

C3_Witness ==
    /\ resp.handler = ReorderHandler
    /\ resp.status = 200
    /\ \E i, j \in 1..Len(resp.req.body.taskIds) :
          /\ OwnedBy(resp.cred, <<resp.req.body.taskIds[i]>>)
          /\ resp.req.body.taskIds[j] \in DOMAIN tasks
          /\ tasks[resp.req.body.taskIds[j]].user_id # resp.cred
          /\ tasks[resp.req.body.taskIds[j]].position # j - 1

\* C4: in every state and for every caller and filter there is exactly one
\* list GET /api/tasks can return, and a returned list is sorted by position
\* ascending, tasks of equal position by creation time descending.
C4_ReadsAreSortedAndDeterministic ==
    /\ \A user \in Users, q \in TaskQueries(ProjectIds) : Cardinality(ListTasks(user, q)) = 1
    /\ (resp.handler = "GET /api/tasks" /\ resp.status = 200) =>
          \A i, j \in 1..Len(resp.body) :
              i < j =>
                  \/ resp.body[i].row.position < resp.body[j].row.position
                  \/ /\ resp.body[i].row.position = resp.body[j].row.position
                     /\ resp.body[i].row.created_at > resp.body[j].row.created_at

C4_Witness ==
    /\ resp.handler = "GET /api/tasks"
    /\ resp.status = 200
    /\ \E i, j \in 1..Len(resp.body) :
          i # j /\ resp.body[i].row.position = resp.body[j].row.position

\* the owners of the records a response carries
ReturnedOwners(r) ==
    IF r.status \notin {200, 201} THEN {}
    ELSE IF r.handler \in {"GET /api/tasks", "GET /api/projects",
                           "GET /api/tasks/{id}/attachments"}
         THEN {r.body[i].row.user_id : i \in 1..Len(r.body)}
    ELSE IF r.handler \in {"POST /api/tasks", "GET /api/tasks/{id}", "PUT /api/tasks/{id}",
                           "POST /api/projects", "GET /api/projects/{id}",
                           "PUT /api/projects/{id}", "POST /api/tasks/{id}/attachments"}
         THEN {r.body.row.user_id}
    ELSE IF r.handler = "GET /api/files/{filename}" THEN {r.body.data[1]}
    ELSE {}

Untouched(table, user) ==
    \A id \in DOMAIN table :
        table[id].user_id # user => id \in DOMAIN table' /\ table'[id] = table[id]

\* C5: a handler call by one user returns no record of another user and
\* leaves every task, project and attachment of another user as it was.
C5_NoForeignRecordTouched ==
    [][(resp'.handler # "" /\ resp'.cred \in Users) =>
        /\ Untouched(tasks, resp'.cred)
        /\ Untouched(projects, resp'.cred)
        /\ Untouched(file_attachments, resp'.cred)
        /\ ReturnedOwners(resp') \subseteq {resp'.cred}
    ]_vars

\* C6: a request without an Authorization header or with a rejected
\* credential is answered 401, and its handler issues no store or storage
\* call and leaves the store as it was.
C6_UnauthenticatedIs401 ==
    [][(resp'.handler # "" /\ resp'.cred \notin Users) =>
        /\ resp'.status = 401
        /\ resp'.body = (IF resp'.cred = "none" THEN "No authorization header"
                         ELSE "Unauthorized")
        /\ resp'.calls = 0
        /\ store' = store
    ]_vars

C6_Witness ==
    /\ resp.handler = "DELETE /api/tasks/{id}"
    /\ resp.status = 401
    /\ resp.cred = "invalid"
    /\ resp.req.id \in DOMAIN tasks

\* C7: an authenticated POST /api/tasks without a title, POST /api/projects
\* without a name, or PUT /api/tasks/reorder without taskIds is answered 400
\* before any store call, and leaves the store as it was.
C7_MissingFieldIs400 ==
    [][(/\ resp'.handler # ""
        /\ resp'.cred \in Users
        /\ \/ resp'.handler = "POST /api/tasks" /\ Field(resp'.req.body, "title", "") = ""
           \/ resp'.handler = "POST /api/projects" /\ Field(resp'.req.body, "name", "") = ""
           \/ resp'.handler = ReorderHandler /\ "taskIds" \notin DOMAIN resp'.req.body) =>
        /\ resp'.status = 400
        /\ resp'.calls = 0
        /\ store' = store
    ]_vars

C7_Witness ==
    /\ resp.handler = "POST /api/tasks"
    /\ resp.status = 400
    /\ "title" \in DOMAIN resp.req.body
    /\ DOMAIN tasks # {}

\* C8: GET, PUT and DELETE of a task or project id that names no record of
\* the caller are answered 404.
C8_NotFoundIs404 ==
    [][/\ (resp'.handler \in TaskByIdHandlers
              /\ ~ \E id \in DOMAIN tasks :
                      id = resp'.req.id /\ tasks[id].user_id = resp'.cred)
          => resp'.status = 404
       /\ (resp'.handler \in ProjectByIdHandlers
              /\ ~ \E id \in DOMAIN projects :
                      id = resp'.req.id /\ projects[id].user_id = resp'.cred)
          => resp'.status = 404
    ]_vars

SameResponse(a, b) == a.resp.status = b.resp.status /\ a.resp.body = b.resp.body

Foreign(table, user) == {id \in DOMAIN table : table[id].user_id # user}

\* C9: for every handler that addresses a task, a project, an attachment or a
\* file by id, the status and body answered for an id of another user's record
\* equal those answered for an id of no record, the same calls failing.
C9_ForeignLooksAbsent ==
    \A user \in Users, fail \in FirstFails(3) :
        /\ \A i \in Foreign(tasks, user), j \in Known(taskSeq) \ DOMAIN tasks :
              /\ SameResponse(GET_task(user, i, fail), GET_task(user, j, fail))
              /\ SameResponse(DELETE_task(user, i, fail), DELETE_task(user, j, fail))
              /\ \A body \in TaskUpdates \cup TaskMoves(Known(projectSeq)) :
                    SameResponse(PUT_task(user, i, body, fail), PUT_task(user, j, body, fail))
              /\ \A oi \in ListAttachments(user, i), oj \in ListAttachments(user, j) :
                    SameResponse(GET_attachments(user, i, fail, oi),
                                 GET_attachments(user, j, fail, oj))
              /\ \A file \in Files :
                    SameResponse(POST_attachments(user, i, file, fail),
                                 POST_attachments(user, j, file, fail))
        /\ \A i \in Foreign(projects, user), j \in Known(projectSeq) \ DOMAIN projects :
              /\ SameResponse(GET_project(user, i, fail), GET_project(user, j, fail))
              /\ SameResponse(DELETE_project(user, i, fail), DELETE_project(user, j, fail))
              /\ \A body \in ProjectUpdates :
                    SameResponse(PUT_project(user, i, body, fail),
                                 PUT_project(user, j, body, fail))
        /\ \A i \in Foreign(file_attachments, user),
              j \in Known(fileSeq) \ DOMAIN file_attachments :
              /\ \A t \in Known(taskSeq) :
                    SameResponse(DELETE_attachment(user, t, i, fail),
                                 DELETE_attachment(user, t, j, fail))
              /\ SameResponse(GET_file(user, file_attachments[i].filename, fail),
                              GET_file(user, j, fail))

\* C10: when a store or storage call a handler issued returned an error, the
\* handler answers 500 with that error's message.
C10_FailedCallIs500 ==
    (resp.handler # "" /\ \E k \in resp.req.fail : k <= resp.calls) =>
        (resp.status = 500 /\ resp.body = UpstreamMessage)

UploadHandler == "POST /api/tasks/{id}/attachments"

\* C11: an authenticated upload of a file larger than 10 * 1024 * 1024 bytes
\* is answered 400 with no storage or store call issued and the store and the
\* storage left as they were; an upload of a file of exactly that size to an
\* existing task, no call failing, is answered 201 with the bytes stored and
\* the attachment record inserted.
C11_OverTenMiBIs400 ==
    [][(resp'.handler = UploadHandler /\ resp'.cred \in Users /\ resp'.req.file # NoFile) =>
        /\ resp'.req.file.size > 10 * 1024 * 1024 =>
              /\ resp'.status = 400
              /\ resp'.calls = 0
              /\ store' = store
        /\ (/\ resp'.req.file.size = 10 * 1024 * 1024
            /\ resp'.req.fail = {}
            /\ resp'.req.id \in DOMAIN tasks) =>
              /\ resp'.status = 201
              /\ resp'.body.id \in DOMAIN file_attachments' \ DOMAIN file_attachments
              /\ file_attachments'[resp'.body.id].file_path \in storage' \ storage
    ]_vars

C11_Witness ==
    /\ resp.handler = UploadHandler
    /\ resp.status = 400
    /\ resp.req.file.size = 10 * 1024 * 1024 + 1
    /\ \E id \in DOMAIN file_attachments : file_attachments[id].file_size = 10 * 1024 * 1024

\* C12: after an upload request, whatever calls failed, every object the
\* handler put into the storage has an attachment record: when the insert of
\* the record failed the uploaded bytes are gone again.
C12_NoOrphanAfterUpload ==
    [][resp'.handler = UploadHandler =>
        \A path \in storage' \ storage :
            \E id \in DOMAIN file_attachments' : file_attachments'[id].file_path = path
    ]_vars

DeleteAttachmentHandler == "DELETE /api/tasks/{id}/attachments/{attachmentId}"

\* C13: an attachment deletion removes the stored bytes before the record: a
\* record it deleted has its bytes removed already, a deletion answered 200
\* has removed both, and when the removal of the bytes (the handler's second
\* call) fails the answer is 500 and every attachment record is still there.
C13_BytesBeforeRecord ==
    [][(resp'.handler = DeleteAttachmentHandler /\ resp'.cred \in Users) =>
        /\ \A id \in DOMAIN file_attachments \ DOMAIN file_attachments' :
              file_attachments[id].file_path \notin storage'
        /\ resp'.status = 200 =>
              /\ resp'.req.attachmentId \notin DOMAIN file_attachments'
              /\ file_attachments[resp'.req.attachmentId].file_path \notin storage'
        /\ (resp'.calls >= 2 /\ 2 \in resp'.req.fail) =>
              /\ resp'.status = 500
              /\ file_attachments' = file_attachments
              /\ storage' = storage
        /\ \A id \in DOMAIN file_attachments \cap DOMAIN file_attachments' :
              file_attachments'[id] = file_attachments[id]
    ]_vars

\* the removal of the bytes of the caller's attachment failed
C13_Witness ==
    /\ resp.handler = DeleteAttachmentHandler
    /\ resp.calls = 2
    /\ 2 \in resp.req.fail
    /\ resp.req.attachmentId \in DOMAIN file_attachments
    /\ file_attachments[resp.req.attachmentId].file_path \in storage

ListHandler == "GET /api/tasks"

\* the ids of the tasks a list response returns
Returned(r) == {r.body[i].id : i \in 1..Len(r.body)}

\* search occurs in text, letter for letter, without regard to case
Contains(text, search) ==
    /\ text # NoText
    /\ \E k \in 0..(Len(Letters(text)) - Len(Letters(search))) :
           \A i \in 1..Len(Letters(search)) :
               Lower(Letters(text)[k + i]) = Lower(Letters(search)[i])

\* the task satisfies the filter f of the query q; a date range is the range
\* the handler computes for the keyword
Satisfies(row, q, f) ==
    CASE f = "project_id" -> row.project_id = q.project_id
      [] f = "status" -> row.status = q.status
      [] f = "priority" -> row.priority = q.priority
      [] f = "search" -> Contains(row.title, q.search) \/ Contains(row.description, q.search)
      [] f = "date_filter" -> DueMatches(row.due_date, q.date_filter, now)
      [] f = "tag_filter" -> q.tag_filter \in row.tags

\* C15: a list GET /api/tasks returns holds exactly the caller's tasks that
\* satisfy every filter present in the query: all of the caller's tasks when
\* no filter is present, and a search is satisfied by the tasks whose title or
\* description contains the searched text in any case.
C15_FiltersAreConjoined ==
    (resp.handler = ListHandler /\ resp.status = 200) =>
        Returned(resp) =
            {id \in DOMAIN tasks :
                /\ tasks[id].user_id = resp.cred
                /\ \A f \in Present(resp.req.q) : Satisfies(tasks[id], resp.req.q, f)}

\* a list answered to a query whose only filter is the date keyword
DateList(r, keyword) ==
    /\ r.handler = ListHandler /\ r.status = 200
    /\ Present(r.req.q) = {"date_filter"}
    /\ r.req.q.date_filter = keyword

\* the user's tasks that have a due date
DueTasks(user) ==
    {id \in DOMAIN tasks : tasks[id].user_id = user /\ tasks[id].due_date # NoValue}

\* C16: date_filter=today returns exactly the caller's tasks, of any status,
\* that are due at or after the start of the current day and before the start
\* of the next day.
C16_TodayIsTheCurrentDay ==
    DateList(resp, "today") =>
        Returned(resp) =
            {id \in DueTasks(resp.cred) :
                /\ tasks[id].due_date >= StartOfDay(now)
                /\ tasks[id].due_date < StartOfNextDay(now)}

\* C17: date_filter=overdue returns exactly the caller's tasks, of any
\* status, that are due before the current instant, those due earlier on the
\* current day among them.
C17_OverdueIsBeforeNow ==
    DateList(resp, "overdue") =>
        Returned(resp) = {id \in DueTasks(resp.cred) : tasks[id].due_date < now}

\* 09:00 of the day after the current one
NineTomorrow == StartOfNextDay(now) + Hours(9)

TodoAtNineTomorrow ==
    {id \in DueTasks(resp.cred) :
        tasks[id].status = "todo" /\ tasks[id].due_date = NineTomorrow}

\* C18: a task with status todo that is due tomorrow at 09:00 is in the list
\* date_filter=tomorrow returns and not in the list date_filter=overdue returns.
C18_NineTomorrowIsTomorrow ==
    /\ DateList(resp, "tomorrow") => TodoAtNineTomorrow \subseteq Returned(resp)
    /\ DateList(resp, "overdue") => TodoAtNineTomorrow \cap Returned(resp) = {}

\* the scenario on the day of 23 hours, after which the handler's tomorrow
\* starts an hour late
C18_Witness ==
    /\ DateList(resp, "tomorrow")
    /\ StartOfNextDay(now) - StartOfDay(now) = Hours(23)
    /\ TodoAtNineTomorrow # {}
    /\ TodoAtNineTomorrow \subseteq Returned(resp)

StatsHandler == "GET /api/dashboard/stats"

TasksOf(user) == {id \in DOMAIN tasks : tasks[id].user_id = user}

\* C19: the completionRate of the dashboard is completedTasks / totalTasks *
\* 100 rounded to the nearest integer, a half upwards, and 0 when totalTasks
\* is 0; a caller without tasks reads totalTasks = 0, completionRate = 0 and
\* recentTasks = [].
C19_CompletionRateIsRounded ==
    (resp.handler = StatsHandler /\ resp.status = 200) =>
        LET total == resp.body.totalTasks
            distance == 2 * (resp.body.completionRate * total - 100 * resp.body.completedTasks)
        IN  /\ total = 0 => resp.body.completionRate = 0
            /\ total > 0 => distance > -total /\ distance <= total
            /\ TasksOf(resp.cred) = {} =>
                   /\ total = 0
                   /\ resp.body.completionRate = 0
                   /\ resp.body.recentTasks = <<>>

\* two of three tasks are completed: 66.67 is rounded up
C19_Witness ==
    /\ resp.handler = StatsHandler /\ resp.status = 200
    /\ resp.body.totalTasks = 3 /\ resp.body.completedTasks = 2
    /\ resp.body.completionRate = 67

\* C20: the overdueTasks of the dashboard is the number of the caller's tasks
\* that are due before the current instant and not completed, which are the
\* tasks the analytics page counts as overdue.
C20_OverdueCountsOpenTasks ==
    (resp.handler = StatsHandler /\ resp.status = 200 /\ resp.req.fail = {}) =>
        LET open == {id \in DueTasks(resp.cred) :
                        tasks[id].due_date < now /\ tasks[id].status # "completed"}
        IN  /\ resp.body.overdueTasks = Cardinality(open)
            /\ open = {id \in TasksOf(resp.cred) : AnalyticsOverdue(tasks[id], now)}

\* r lists the five latest created of the tasks ids, or all of them when
\* they are fewer, the latest first
LatestFive(r, ids) ==
    /\ Len(r) = (IF Cardinality(ids) < 5 THEN Cardinality(ids) ELSE 5)
    /\ \A i \in 1..Len(r) : r[i].id \in ids
    /\ \A i, j \in 1..Len(r) : i < j => r[i].created_at > r[j].created_at
    /\ \A id \in ids \ {r[i].id : i \in 1..Len(r)} :
           \A i \in 1..Len(r) : tasks[id].created_at < r[i].created_at

\* the user's tasks created in the seven days before the current instant
CreatedThisWeek(user) ==
    {id \in TasksOf(user) : tasks[id].created_at >= Stamp(SevenDaysAgo(now), 0)}

\* C21 as stated: recentTasks of the dashboard lists the caller's five most
\* recently created tasks, all of them when they are fewer than five, the
\* latest first.
C21_RecentAreTheLatestFive ==
    (resp.handler = StatsHandler /\ resp.status = 200) =>
        LatestFive(resp.body.recentTasks, TasksOf(resp.cred))

\* C21 as amended: recentTasks of the dashboard lists the five most recently
\* created of the caller's tasks that were created in the last seven days,
\* all of those when they are fewer than five, the latest first.
C21_RecentAreTheLatestFiveOfTheWeek ==
    (resp.handler = StatsHandler /\ resp.status = 200) =>
        LatestFive(resp.body.recentTasks, CreatedThisWeek(resp.cred))

\* six tasks of the week, created on two days, five of them listed
C21_Witness ==
    /\ resp.handler = StatsHandler /\ resp.status = 200
    /\ Cardinality(CreatedThisWeek(resp.cred)) = 6
    /\ \E i, j \in CreatedThisWeek(resp.cred) :
           tasks[i].created_at > tasks[j].created_at + TicksPerHour
    /\ Len(resp.body.recentTasks) = 5

\* C22: whatever tasks are created and updated, every stored task has a
\* title, and no title is the empty string.
C22_TitlesAreNonEmpty ==
    \A id \in DOMAIN tasks : tasks[id].title \notin {"", NoText}

\* the indexes before k at which the list names id
WritesBefore(ids, k, id) == {n \in 1..(k - 1) : ids[n] = id}

\* C24: when the k-th write of a reorder fails, the answer is 500, each of
\* the caller's tasks the list names before index k has the position of its
\* last index before k, and each task the list names only from index k on has
\* the position it had.
C24_FailedReorderIsPartial ==
    [][(resp'.handler = ReorderHandler /\ resp'.req.fail # {}) =>
        LET ids == resp'.req.body.taskIds
            k == CHOOSE m \in resp'.req.fail : TRUE
        IN  /\ resp'.status = 500
            /\ \A id \in DOMAIN tasks :
                  IF tasks[id].user_id = resp'.cred /\ WritesBefore(ids, k, id) # {}
                  THEN tasks'[id].position = Max(WritesBefore(ids, k, id)) - 1
                  ELSE tasks'[id].position = tasks[id].position
    ]_vars

\* the second write failed: the first task moved, the second did not
C24_Witness ==
    /\ resp.handler = ReorderHandler /\ resp.status = 500
    /\ resp.req.fail = {2}
    /\ LET ids == resp.req.body.taskIds
       IN  /\ Len(ids) = 2 /\ ids[1] # ids[2]
           /\ OwnedBy(resp.cred, ids)
           /\ tasks[ids[1]].position = 0
           /\ tasks[ids[2]].position # 1

\* C27: whatever uploads and deletions were made, and whichever of their
\* calls failed, the bytes of every attachment record are in storage.
C27_RecordsHaveBytes ==
    \A id \in DOMAIN file_attachments :
        file_attachments[id].file_path \in storage

\* C30: whatever uploads were made, also to ids of no task and of other
\* users' tasks, every attachment record names an existing task that belongs
\* to the attachment's user.
C30_AttachmentsOnOwnTasks ==
    \A id \in DOMAIN file_attachments :
        /\ file_attachments[id].task_id \in DOMAIN tasks
        /\ tasks[file_attachments[id].task_id].user_id =
               file_attachments[id].user_id

\* the requests that are between their read and their insert
Racing(s) == running[s].handler = "POST /api/tasks"

\* two tasks of one owner and one project
SameScope(t, i, j) ==
    /\ t[i].user_id = t[j].user_id
    /\ t[i].project_id = t[j].project_id
    /\ t[i].project_id # NoId

\* C23: a creation inserts its task at the position it read before its
\* insert, also when another creation of the same owner and project has
\* inserted a task at that position since, and no creation changes the
\* position of a task that exists; so two creations that read the same maximum
\* leave two tasks at one position, and later creations leave them there.
C23_RacingCreatesKeepTheReadPosition ==
    [][\A s \in Slots :
          (Racing(s) /\ running'[s] = Idle /\ resp'.status = 201) =>
              /\ tasks'[taskSeq].position = running[s].nextPosition
              /\ \A id \in DOMAIN tasks :
                    id \in DOMAIN tasks' /\ tasks'[id].position = tasks[id].position
    ]_vars

\* both creations have ended: two tasks of one project hold one position, and
\* a third creation after them has not changed that
C23_Witness ==
    /\ resp.handler = "POST /api/tasks" /\ resp.status = 201
    /\ \A s \in Slots : running[s] = Idle
    /\ \E i, j \in DOMAIN tasks :
          /\ i < j /\ j < resp.body.id
          /\ SameScope(tasks, i, j)
          /\ tasks[i].position = tasks[j].position

\* C28: completionRate of the dashboard is an integer from 0 to 100, whatever
\* requests create, complete and delete the caller's tasks while the
\* dashboard's queries run.
C28_CompletionRateIsAPercentage ==
    (resp.handler = StatsHandler /\ resp.status = 200) =>
        resp.body.completionRate \in 0..100

\* the list the component shows, and the ids of a list
Shown(c) == filteredTasks(c.tasks, c.filters)
Ids(list) == [k \in 1..Len(list) |-> list[k].id]

\* the lists the store may answer a fetch of the user with
ServerLists(user, q) ==
    {[k \in 1..Len(order) |-> TaskJson(tasks, order[k], user)] : order \in ListTasks(user, q)}

\* the requests of a kind that the step sends, and those it gets answered
Sent(kind) == {call \in client'.calls \ client.calls : call.kind = kind}
Answered(kind) == {call \in client.calls \ client'.calls : call.kind = kind}
InFlight(c, kind) == {call \in c.calls : call.kind = kind}

\* C25: when a task is dragged from one index of the shown list to another,
\* the list shown right after, before the server has answered, is the list
\* shown before with the dragged task moved to the new index, and every shown
\* task's position is its index.
C25_DragShowsTheNewOrder ==
    [][\A call \in Sent("reorder") :
          /\ Ids(Shown(client')) =
                 Ids(Spliced(Shown(client), call.source, call.destination))
          /\ \A k \in 1..Len(Shown(client')) : Shown(client')[k].row.position = k - 1
    ]_vars

\* C26: when the reorder request of a drag has failed and the fetch that
\* follows it is answered, with no other request of the list unanswered, the
\* list shown is the server's list for the filters now selected.
C26_RefetchShowsTheServerList ==
    [][\A call \in Answered("fetch") :
          (call.refetch /\ client'.calls = {}) =>
              Shown(client') \in ServerLists("u1", client'.filters)
    ]_vars

\* C29: when the last of the fetches in flight is answered, in whatever order
\* the answers came, the list shown is the server's list for the filters
\* selected last.
C29_LastFiltersWin ==
    [][(Answered("fetch") # {} /\ InFlight(client', "fetch") = {}) =>
          Shown(client') \in ServerLists("u1", client'.filters)
    ]_vars

====
